---- MODULE Spec2Model ----
(***************************************************************************)
(* A model of export_things_to_taskpaper.py: resolving identifiers to      *)
(* records, extracting the ordered children of projects and areas,         *)
(* synthesizing the OmniFocus annotation, and serializing the outline.     *)
(*                                                                         *)
(* Text is a sequence of one-character strings, so that every f-string,    *)
(* join, replace, splitlines and sort of the source is computed character  *)
(* by character.  A Python dict is a function whose DOMAIN is its keys;    *)
(* dict.get(key, default) is Get.  A Python list is a sequence.  A raised  *)
(* UUIDDoesNotResolveError is the value NotResolved.                       *)
(***************************************************************************)
EXTENDS Integers, Sequences, FiniteSets, TLC

VARIABLES
    db,       \* the Things database the accessor reads, and the accessor's way of reporting a miss
    pc,       \* where the program is: which scenario, and the position inside export
    item,     \* the record object an interactive caller holds (a mutable dict)
    stream,   \* the text written to the output stream so far
    stderr,   \* the warnings printed to sys.stderr, one text per print
    uuids,    \* export's uuids argument
    k,        \* export's loop position: how many entries of the work list are done
    calls,    \* the calls made so far: operation, arguments, the object before, the text written
    resolved, \* the last uuid_to_item call of an interactive caller, and what it gave
    dest      \* what export handed to stdout or to the clipboard

vars == <<db, pc, item, stream, stderr, uuids, k, calls, resolved, dest>>

-----------------------------------------------------------------------------
(* Bounds of the model. *)

MaxTags == 2     \* longest tags list of a record handed to the annotation function
MaxUuids == 3    \* longest uuids list given to export
MaxCalls == 2    \* interactive calls in a row on one object
MaxDepth == 1    \* deepest indentation an interactive caller asks for
MaxItems == 3    \* most children of a project handed to the extractor

-----------------------------------------------------------------------------
(* Text. *)

\* Python's None: where a uuid or a type is expected, and where a text or a list is
\* expected (no text holds this element).
None == "None"
NoneText == <<"None">>

Code ==
    "\t" :> 9 @@ "\n" :> 10 @@ " " :> 32 @@ "(" :> 40 @@ ")" :> 41 @@ "," :> 44 @@
    "-" :> 45 @@ "0" :> 48 @@ "1" :> 49 @@ "2" :> 50 @@ "3" :> 51 @@ "4" :> 52 @@
    "5" :> 53 @@ "6" :> 54 @@ "7" :> 55 @@ "8" :> 56 @@ "9" :> 57 @@ ":" :> 58 @@
    "@" :> 64 @@ "A" :> 65 @@ "B" :> 66 @@ "C" :> 67 @@ "D" :> 68 @@ "E" :> 69 @@
    "F" :> 70 @@ "G" :> 71 @@ "H" :> 72 @@ "I" :> 73 @@ "J" :> 74 @@ "K" :> 75 @@
    "L" :> 76 @@ "M" :> 77 @@ "N" :> 78 @@ "O" :> 79 @@ "P" :> 80 @@ "Q" :> 81 @@
    "R" :> 82 @@ "S" :> 83 @@ "T" :> 84 @@ "U" :> 85 @@ "V" :> 86 @@ "W" :> 87 @@
    "X" :> 88 @@ "Y" :> 89 @@ "Z" :> 90 @@ "a" :> 97 @@ "b" :> 98 @@ "c" :> 99 @@
    "d" :> 100 @@ "e" :> 101 @@ "f" :> 102 @@ "g" :> 103 @@ "h" :> 104 @@ "i" :> 105 @@
    "j" :> 106 @@ "k" :> 107 @@ "l" :> 108 @@ "m" :> 109 @@ "n" :> 110 @@ "o" :> 111 @@
    "p" :> 112 @@ "q" :> 113 @@ "r" :> 114 @@ "s" :> 115 @@ "t" :> 116 @@ "u" :> 117 @@
    "v" :> 118 @@ "w" :> 119 @@ "x" :> 120 @@ "y" :> 121 @@ "z" :> 122

\* Python's str < str: by code point, a proper prefix first.
RECURSIVE StrLess(_, _)
StrLess(a, b) ==
    IF b = <<>> THEN FALSE
    ELSE IF a = <<>> THEN TRUE
    ELSE IF Code[Head(a)] # Code[Head(b)] THEN Code[Head(a)] < Code[Head(b)]
    ELSE StrLess(Tail(a), Tail(b))

Range(s) == {s[i] : i \in 1..Len(s)}

\* sep.join(parts)
RECURSIVE Join(_, _)
Join(sep, parts) ==
    IF parts = <<>> THEN <<>>
    ELSE IF Len(parts) = 1 THEN parts[1]
    ELSE parts[1] \o sep \o Join(sep, Tail(parts))

\* text.replace(old, new) for a one-character old
Replace(text, old, new) == [i \in 1..Len(text) |-> IF text[i] = old THEN new ELSE text[i]]

\* text.splitlines(), for text whose only line boundary is "\n"
RECURSIVE SplitFrom(_, _, _)
SplitFrom(text, i, cur) ==
    IF i > Len(text) THEN (IF cur = <<>> THEN <<>> ELSE <<cur>>)
    ELSE IF text[i] = "\n" THEN <<cur>> \o SplitFrom(text, i + 1, <<>>)
    ELSE SplitFrom(text, i + 1, Append(cur, text[i]))

splitlines(text) == SplitFrom(text, 1, <<>>)

\* dict.get(key, default)
Get(d, key, default) == IF key \in DOMAIN d THEN d[key] ELSE default

\* Python truthiness of what dict.get returned (None, "" and [] are false)
Truthy(v) == v # NoneText /\ v # <<>>

\* Python truthiness of a uuid that dict.get returned (None and "" are false)
IsSet(v) == v # None /\ v # ""

\* sorted(set(strings)): the distinct strings in ascending str order
RECURSIVE SortedSet(_)
SortedSet(S) ==
    IF S = {} THEN <<>>
    ELSE LET least == CHOOSE x \in S : \A y \in S \ {x} : StrLess(x, y)
         IN  <<least>> \o SortedSet(S \ {least})

\* sorted(records, key=itemgetter("index")): a stable insertion sort
RECURSIVE InsertByIndex(_, _)
InsertByIndex(sorted, r) ==
    IF sorted = <<>> THEN <<r>>
    ELSE IF sorted[Len(sorted)]["index"] <= r["index"] THEN Append(sorted, r)
    ELSE Append(InsertByIndex(SubSeq(sorted, 1, Len(sorted) - 1), r), sorted[Len(sorted)])

RECURSIVE SortedByIndex(_)
SortedByIndex(records) ==
    IF records = <<>> THEN <<>>
    ELSE InsertByIndex(SortedByIndex(SubSeq(records, 1, Len(records) - 1)), records[Len(records)])

-----------------------------------------------------------------------------
(* _get_omnifocus_parameters *)

\* The list bound to `tags` when line 149 is reached.  tags += [...] extends the
\* list in place, so this is also what the record's own tags list holds afterwards
\* when item.get("tags", []) returned the record's list and not the default.
\* (a variant that forgets the start status)
tags_extended_without_start(it, area_name) ==
    Get(it, "tags", <<>>)
      \o (IF Truthy(area_name)
          THEN << <<"a", "r", "e", "a", "-">> \o Replace(area_name, " ", "-") >>
          ELSE <<>>)

tags_extended(it, area_name) ==
    Get(it, "tags", <<>>)
      \o (IF Truthy(Get(it, "start", NoneText)) THEN <<it["start"]>> ELSE <<>>)
      \o (IF Truthy(area_name)
          THEN << <<"a", "r", "e", "a", "-">> \o Replace(area_name, " ", "-") >>
          ELSE <<>>)

\* (a variant that joins the list as it is, without sorted(set(...)))
tags_token_without_set(tags) ==
    <<" ", "@", "t", "a", "g", "s", "(">> \o Join(<<",", " ">>, tags) \o <<")">>

tags_token(tags) ==
    <<" ", "@", "t", "a", "g", "s", "(">> \o Join(<<",", " ">>, SortedSet(Range(tags))) \o <<")">>

get_omnifocus_parameters(it, area_name) ==
    (IF Truthy(Get(it, "start_date", NoneText))
     THEN <<" ", "@", "d", "e", "f", "e", "r", "(">> \o it["start_date"] \o <<")">>
     ELSE <<>>)
    \o (IF Truthy(Get(it, "deadline", NoneText))
        THEN <<" ", "@", "d", "u", "e", "(">> \o it["deadline"] \o <<")">>
        ELSE <<>>)
    \o tags_token(tags_extended(it, area_name))

\* The record object after the call: its tags list, if it has one, was extended.
after_parameters(it, area_name) ==
    IF "tags" \in DOMAIN it
    THEN [it EXCEPT !["tags"] = tags_extended(it, area_name)]
    ELSE it

-----------------------------------------------------------------------------
(* The serializers, as the text each one writes to the stream. *)

Tab == <<"\t">>

\* (a variant that indents only the first line of the note)
write_note_first_line_only(it, depth) ==
    IF Truthy(Get(it, "notes", NoneText))
    THEN depth \o Join(<<"\n">>, splitlines(it["notes"])) \o <<"\n">>
    ELSE <<>>

write_note_if_any(it, depth) ==
    IF Truthy(Get(it, "notes", NoneText))
    THEN depth \o Join(<<"\n">> \o depth, splitlines(it["notes"])) \o <<"\n">>
    ELSE <<>>

RECURSIVE checklist_lines(_, _)
checklist_lines(checklist, depth) ==
    IF checklist = <<>> THEN <<>>
    ELSE depth \o <<"-", " ">> \o Head(checklist)["title"] \o <<"\n">>
         \o checklist_lines(Tail(checklist), depth)

write_checklist_if_any(todo, depth) == checklist_lines(Get(todo, "checklist", <<>>), depth)

\* write_todo, once its argument is resolved
write_todo(todo, depth, area_name) ==
    depth \o <<"-", " ">> \o todo["title"] \o get_omnifocus_parameters(todo, area_name) \o <<"\n">>
    \o write_note_if_any(todo, depth \o Tab)
    \o write_checklist_if_any(todo, depth \o Tab)

RECURSIVE write_todos(_, _, _)
write_todos(todos, depth, area_name) ==
    IF todos = <<>> THEN <<>>
    ELSE write_todo(Head(todos), depth, area_name) \o write_todos(Tail(todos), depth, area_name)

IsTodo(r) == Get(r, "type", None) = "to-do"
IsHeading(r) == Get(r, "type", None) = "heading"
IsProject(r) == Get(r, "type", None) = "project"

todos_directly_under_the_project(project) == SelectSeq(Get(project, "items", <<>>), IsTodo)

\* (a variant that takes the headings in the accessor's order)
headings_unsorted(project) == SelectSeq(Get(project, "items", <<>>), IsHeading)

headings_of(project) == SortedByIndex(SelectSeq(Get(project, "items", <<>>), IsHeading))

RECURSIVE todos_under_headings(_)
todos_under_headings(headings) ==
    IF headings = <<>> THEN <<>>
    ELSE SortedByIndex(SelectSeq(Get(Head(headings), "items", <<>>), IsTodo))
         \o todos_under_headings(Tail(headings))

\* get_all_todos_for_project_in_order, once its argument is resolved
get_all_todos_for_project_in_order(project) ==
    todos_directly_under_the_project(project) \o todos_under_headings(headings_of(project))

\* (a variant that hands the project's area title on to its to-dos)
write_project_tagging_todos(project, depth) ==
    depth \o project["title"] \o <<":">>
      \o get_omnifocus_parameters(project, Get(project, "area_title", NoneText)) \o <<"\n">>
    \o write_note_if_any(project, depth \o Tab)
    \o write_todos(get_all_todos_for_project_in_order(project), depth \o Tab,
                   Get(project, "area_title", NoneText))

\* write_project, once its argument is resolved
write_project(project, depth) ==
    depth \o project["title"] \o <<":">>
      \o get_omnifocus_parameters(project, Get(project, "area_title", NoneText)) \o <<"\n">>
    \o write_note_if_any(project, depth \o Tab)
    \o write_todos(get_all_todos_for_project_in_order(project), depth \o Tab, NoneText)

RECURSIVE write_projects(_, _)
write_projects(projects, depth) ==
    IF projects = <<>> THEN <<>>
    ELSE write_project(Head(projects), depth) \o write_projects(Tail(projects), depth)

get_all_projects_for_area(area) ==
    SortedByIndex(SelectSeq(Get(area, "items", <<>>),
        LAMBDA project : IsProject(project) /\ Get(project, "area", None) = area["uuid"]))

get_all_todos_for_area(area) ==
    SortedByIndex(SelectSeq(Get(area, "items", <<>>),
        LAMBDA todo : IsTodo(todo) /\ Get(todo, "area", None) = area["uuid"]))

\* (a variant that writes a line for the area itself)
write_all_items_in_area_with_area_line(area, depth) ==
    depth \o area["title"] \o <<":", "\n">>
    \o write_projects(get_all_projects_for_area(area), depth)
    \o write_todos(get_all_todos_for_area(area), depth, area["title"])

\* write_all_items_in_area, once its argument is resolved
write_all_items_in_area(area, depth) ==
    write_projects(get_all_projects_for_area(area), depth)
    \o write_todos(get_all_todos_for_area(area), depth, area["title"])

-----------------------------------------------------------------------------
(* The Things database, as the accessor (things.py) sees it: the areas, and one
   flat store of tasks (to-dos, projects, headings), each naming its owner.  The
   accessor returns rows in the order of the store. *)

Areas ==
    << [uuid |-> "a1", type |-> "area", title |-> <<"W", "o", "r", "k">>],
       [uuid |-> "a2", type |-> "area", title |-> <<"H", "o", "m", "e", " ", "P", "r", "o", "j", "e", "c", "t", "s">>] >>

Tasks ==
    << [uuid |-> "p1", type |-> "project", title |-> <<"L", "a", "u", "n", "c", "h">>, index |-> 1,
        area |-> "a1", area_title |-> <<"W", "o", "r", "k">>, notes |-> <<"o", "n", "e", "\n", "\n", "t", "w", "o">>,
        tags |-> <<<<"b">>, <<"a">>>>, start |-> <<"A", "n", "y", "t", "i", "m", "e">>, deadline |-> <<"2", "0", "2", "4", "-", "0", "1", "-", "0", "2">>],
       [uuid |-> "p2", type |-> "project", title |-> <<"P", "l", "a", "n">>, index |-> 0,
        area |-> "a1", area_title |-> <<"W", "o", "r", "k">>, start |-> <<"S", "o", "m", "e", "d", "a", "y">>],
       [uuid |-> "t1", type |-> "to-do", title |-> <<"S", "h", "i", "p">>, index |-> 1, project |-> "p1",
        tags |-> <<<<"b">>, <<"A", "n", "y", "t", "i", "m", "e">>>>, start |-> <<"A", "n", "y", "t", "i", "m", "e">>, start_date |-> <<"2", "0", "2", "4", "-", "0", "1", "-", "0", "2">>,
        notes |-> <<"o", "n", "e", "\n", "\n", "t", "w", "o">>, checklist |-> <<[title |-> <<"x">>], [title |-> <<"y", " ", "z">>]>>],
       [uuid |-> "t2", type |-> "to-do", title |-> <<"T", "e", "s", "t">>, index |-> 0, project |-> "p1",
        start |-> <<"A", "n", "y", "t", "i", "m", "e">>],
       [uuid |-> "h1", type |-> "heading", title |-> <<"L", "a", "t", "e", "r">>, index |-> 2, project |-> "p1"],
       [uuid |-> "h2", type |-> "heading", title |-> <<"S", "o", "o", "n">>, index |-> 1, project |-> "p1"],
       [uuid |-> "t3", type |-> "to-do", title |-> <<"F", "i", "x">>, index |-> 0, heading |-> "h1",
        start |-> <<"S", "o", "m", "e", "d", "a", "y">>],
       [uuid |-> "t4", type |-> "to-do", title |-> <<"D", "o", "c">>, index |-> 1, heading |-> "h2",
        start |-> <<"A", "n", "y", "t", "i", "m", "e">>, checklist |-> <<[title |-> <<"x">>]>>],
       [uuid |-> "t5", type |-> "to-do", title |-> <<"T", "a", "g">>, index |-> 0, heading |-> "h2",
        tags |-> <<<<"a">>>>, start |-> <<"A", "n", "y", "t", "i", "m", "e">>],
       [uuid |-> "t6", type |-> "to-do", title |-> <<"M", "a", "i", "l">>, index |-> 1,
        area |-> "a1", area_title |-> <<"W", "o", "r", "k">>, tags |-> <<<<"b">>, <<"a">>>>, start |-> <<"A", "n", "y", "t", "i", "m", "e">>,
        notes |-> <<"s", "e", "e", " ", "m", "e">>],
       [uuid |-> "t7", type |-> "to-do", title |-> <<"C", "a", "l", "l">>, index |-> 0,
        area |-> "a1", area_title |-> <<"W", "o", "r", "k">>, start |-> <<"S", "o", "m", "e", "d", "a", "y">>],
       [uuid |-> "t8", type |-> "to-do", title |-> <<"M", "o", "w">>, index |-> 0,
        area |-> "a2", area_title |-> <<"H", "o", "m", "e", " ", "P", "r", "o", "j", "e", "c", "t", "s">>, tags |-> <<<<"a">>>>, start |-> <<"A", "n", "y", "t", "i", "m", "e">>,
        checklist |-> <<[title |-> <<"y", " ", "z">>]>>],
       [uuid |-> "p3", type |-> "project", title |-> <<"M", "o", "v", "e">>, index |-> 1,
        start |-> <<"A", "n", "y", "t", "i", "m", "e">>, notes |-> <<"s", "e", "e", " ", "m", "e">>],
       [uuid |-> "p4", type |-> "project", title |-> <<"R", "e", "a", "d">>, index |-> 0,
        tags |-> <<<<"a">>>>, start |-> <<"S", "o", "m", "e", "d", "a", "y">>],
       [uuid |-> "t9", type |-> "to-do", title |-> <<"P", "a", "c", "k">>, index |-> 0, project |-> "p3",
        start |-> <<"A", "n", "y", "t", "i", "m", "e">>],
       [uuid |-> "t10", type |-> "to-do", title |-> <<"B", "u", "y">>, index |-> 1,
        start |-> <<"I", "n", "b", "o", "x">>, deadline |-> <<"2", "0", "2", "4", "-", "0", "1", "-", "0", "2">>],
       [uuid |-> "t11", type |-> "to-do", title |-> <<"N", "a", "p">>, index |-> 0,
        tags |-> <<<<"b">>>>, start |-> <<"I", "n", "b", "o", "x">>] >>

Reverse(s) == [i \in 1..Len(s) |-> s[Len(s) + 1 - i]]

\* The databases of the model: the same rows, returned by the accessor in either
\* order; and the accessor's way of reporting that a query by uuid found nothing:
\* an empty result, or the ValueError that uuid_to_item catches.
Databases ==
    { [areas |-> IF rev THEN Reverse(Areas) ELSE Areas,
       tasks |-> IF rev THEN Reverse(Tasks) ELSE Tasks, miss |-> m] :
        rev \in BOOLEAN, m \in {"empty", "ValueError"} }

\* The items the accessor attaches with include_items=True.
heading_with_items(d, h) ==
    h @@ [items |-> SelectSeq(d.tasks, LAMBDA t : Get(t, "heading", None) = h["uuid"])]

project_with_items(d, p) ==
    p @@ [items |->
            [i \in 1..Len(SelectSeq(d.tasks, LAMBDA t : Get(t, "project", None) = p["uuid"])) |->
                LET t == SelectSeq(d.tasks, LAMBDA x : Get(x, "project", None) = p["uuid"])[i]
                IN  IF IsHeading(t) THEN heading_with_items(d, t) ELSE t]]

task_with_items(d, t) ==
    IF IsProject(t) THEN project_with_items(d, t)
    ELSE IF IsHeading(t) THEN heading_with_items(d, t)
    ELSE t

area_with_items(d, a) ==
    a @@ [items |->
            [i \in 1..Len(SelectSeq(d.tasks, LAMBDA t : Get(t, "area", None) = a["uuid"])) |->
                task_with_items(d, SelectSeq(d.tasks, LAMBDA x : Get(x, "area", None) = a["uuid"])[i])]]

\* What a query by uuid gives: the row, or the accessor's report of a miss.
Found(r) == [outcome |-> "found", value |-> r]
Miss(d) == [outcome |-> d.miss]

\* things.tasks(uuid=uuid, type=type, include_items=True)
things_tasks_by_uuid(d, uuid, type) ==
    LET rows == SelectSeq(d.tasks, LAMBDA t : t["uuid"] = uuid /\ (type = None \/ t["type"] = type))
    IN  IF rows = <<>> THEN Miss(d) ELSE Found(task_with_items(d, rows[1]))

\* things.areas(uuid=uuid, include_items=True)
things_areas_by_uuid(d, uuid) ==
    LET rows == SelectSeq(d.areas, LAMBDA a : a["uuid"] = uuid)
    IN  IF rows = <<>> THEN Miss(d) ELSE Found(area_with_items(d, rows[1]))

\* things.areas(include_items=True)
things_areas(d) == [i \in 1..Len(d.areas) |-> area_with_items(d, d.areas[i])]

\* things.tasks(type="project", area=False): no include_items, so no "items" key
things_projects_without_area(d) ==
    SelectSeq(d.tasks, LAMBDA t : t["type"] = "project" /\ "area" \notin DOMAIN t)

\* things.tasks(type="to-do", project=False, area=False, include_items=True)
things_todos_without_project_or_area(d) ==
    SelectSeq(d.tasks, LAMBDA t : t["type"] = "to-do" /\ "area" \notin DOMAIN t
                                  /\ "project" \notin DOMAIN t)

-----------------------------------------------------------------------------
(* The identifier resolver. *)

NotResolved(uuid, type) == [error |-> "UUIDDoesNotResolveError", uuid |-> uuid, type |-> type]

IsError(r) == "error" \in DOMAIN r

uuid_to_item(d, uuid, type) ==
    LET first == IF type # "area" THEN things_tasks_by_uuid(d, uuid, type) ELSE [outcome |-> "empty"]
    IN  IF first.outcome = "ValueError" THEN NotResolved(uuid, type)
        ELSE LET second == IF type = "area" \/ first.outcome = "empty"
                           THEN things_areas_by_uuid(d, uuid)
                           ELSE first
             IN  IF second.outcome = "found" THEN second.value ELSE NotResolved(uuid, type)

get_all_projects_with_no_area(d) ==
    SortedByIndex(SelectSeq(things_projects_without_area(d),
        LAMBDA project : IsProject(project) /\ ~ IsSet(Get(project, "area", None))))

get_all_todos_with_no_area(d) ==
    SortedByIndex(SelectSeq(things_todos_without_project_or_area(d),
        LAMBDA todo : ~ IsSet(Get(todo, "area", None)) /\ ~ IsSet(Get(todo, "project", None))
                      /\ ~ IsSet(Get(todo, "heading", None))))

-----------------------------------------------------------------------------
(* The record objects after a serializer ran on them: every tags list that
   _get_omnifocus_parameters was handed has been extended in place. *)

after_write_todo(todo, area_name) == after_parameters(todo, area_name)

after_heading(h) ==
    IF "items" \in DOMAIN h
    THEN [h EXCEPT !["items"] =
            [i \in 1..Len(h["items"]) |->
                IF IsTodo(h["items"][i]) THEN after_write_todo(h["items"][i], NoneText)
                ELSE h["items"][i]]]
    ELSE h

after_write_project(project) ==
    LET p == after_parameters(project, Get(project, "area_title", NoneText))
    IN  IF "items" \in DOMAIN p
        THEN [p EXCEPT !["items"] =
                [i \in 1..Len(p["items"]) |->
                    IF IsTodo(p["items"][i]) THEN after_write_todo(p["items"][i], NoneText)
                    ELSE IF IsHeading(p["items"][i]) THEN after_heading(p["items"][i])
                    ELSE p["items"][i]]]
        ELSE p

after_write_all_items_in_area(area) ==
    IF "items" \in DOMAIN area
    THEN [area EXCEPT !["items"] =
            [i \in 1..Len(area["items"]) |->
                LET x == area["items"][i]
                IN  IF Get(x, "area", None) # area["uuid"] THEN x
                    ELSE IF IsProject(x) THEN after_write_project(x)
                    ELSE IF IsTodo(x) THEN after_write_todo(x, area["title"])
                    ELSE x]]
    ELSE area

-----------------------------------------------------------------------------
(* The inputs of the model. *)

TagUniverse == {<<"a">>, <<"b">>, <<"A", "n", "y", "t", "i", "m", "e">>}

TagLists == UNION {[1..n -> TagUniverse] : n \in 0..MaxTags}

AreaNames == {NoneText, <<"W", "o", "r", "k">>, <<"H", "o", "m", "e", " ", "P", "r", "o", "j", "e", "c", "t", "s">>}

Restrict(f, S) == [x \in S |-> f[x]]

\* Records for _get_omnifocus_parameters: every combination of present and absent
\* tags, start, start_date and deadline.
ParamItems ==
    { Restrict(full, {"title"} \cup K) :
        full \in [title : {<<"S", "h", "i", "p">>}, tags : TagLists, start : {<<"A", "n", "y", "t", "i", "m", "e">>, <<"S", "o", "m", "e", "d", "a", "y">>},
                  start_date : {<<"2", "0", "2", "4", "-", "0", "1", "-", "0", "2">>}, deadline : {<<"2", "0", "2", "4", "-", "0", "3", "-", "0", "4">>}],
        K \in SUBSET {"tags", "start", "start_date", "deadline"} }

\* Children a project may have: to-dos, and headings with their own to-dos.
ChildPool ==
    { [uuid |-> "c1", type |-> "to-do", title |-> <<"S", "h", "i", "p">>, index |-> 1, project |-> "px"],
      [uuid |-> "c2", type |-> "to-do", title |-> <<"T", "e", "s", "t">>, index |-> 0, project |-> "px"],
      [uuid |-> "g1", type |-> "heading", title |-> <<"L", "a", "t", "e", "r">>, index |-> 2, project |-> "px",
       items |-> << [uuid |-> "c3", type |-> "to-do", title |-> <<"D", "o", "c">>, index |-> 1, heading |-> "g1"],
                    [uuid |-> "c4", type |-> "to-do", title |-> <<"T", "a", "g">>, index |-> 0, heading |-> "g1"] >>],
      [uuid |-> "g2", type |-> "heading", title |-> <<"S", "o", "o", "n">>, index |-> 1, project |-> "px",
       items |-> << [uuid |-> "c5", type |-> "to-do", title |-> <<"F", "i", "x">>, index |-> 0, heading |-> "g2"] >>],
      [uuid |-> "g3", type |-> "heading", title |-> <<"P", "l", "a", "n">>, index |-> 0, project |-> "px"] }

ItemLists ==
    UNION { {s \in [1..n -> ChildPool] : \A i, j \in 1..n : i # j => s[i] # s[j]} : n \in 0..MaxItems }

ExtractProjects ==
    { [uuid |-> "px", type |-> "project", title |-> <<"L", "a", "u", "n", "c", "h">>, index |-> 0] }
    \cup { [uuid |-> "px", type |-> "project", title |-> <<"L", "a", "u", "n", "c", "h">>, index |-> 0, items |-> l] :
            l \in ItemLists }

\* The identifiers a caller types: a to-do, a project, an area, a heading, and one
\* that is not in the database.
UuidUniverse == {"t1", "p1", "a2", "h1", "zz"}

UuidLists == UNION {[1..n -> UuidUniverse] : n \in 0..MaxUuids}

RECURSIVE Tabs(_)
Tabs(n) == IF n = 0 THEN <<>> ELSE Tab \o Tabs(n - 1)

NoItem == [none |-> TRUE]
NoDatabase == [areas |-> <<>>, tasks |-> <<>>, miss |-> "empty"]
NoCall == [uuid |-> None, type |-> None, result |-> NoItem]
NoDest == [to |-> None, text |-> <<>>]

-----------------------------------------------------------------------------
(* The program. *)

\* _resolve_item_if_needed: the argument is a str (a uuid) or a dict (a record).
resolve_item_if_needed(d, arg, type) ==
    IF "str" \in DOMAIN arg THEN uuid_to_item(d, arg["str"], type) ELSE arg["dict"]

Call(op, arg, depth, area_name, before, after, out) ==
    [op |-> op, str |-> "str" \in DOMAIN arg, depth |-> depth, area_name |-> area_name,
     before |-> before, after |-> after, out |-> out, raised |-> IsError(before)]

Init ==
    /\ stream = <<>>
    /\ stderr = <<>>
    /\ uuids = <<>>
    /\ k = 0
    /\ calls = <<>>
    /\ resolved = NoCall
    /\ dest = NoDest
    /\ \/ pc = "params" /\ db = NoDatabase /\ item \in ParamItems
       \/ pc = "extract" /\ db = NoDatabase /\ item \in ExtractProjects
       \/ pc \in {"interactive", "export"} /\ db \in Databases /\ item = NoItem

\* A caller evaluates _get_omnifocus_parameters(item, area_name) on the record it holds.
GetParameters(area_name) ==
    /\ pc = "params"
    /\ Len(calls) < MaxCalls
    /\ calls' = Append(calls, Call("_get_omnifocus_parameters", [dict |-> item], 0, area_name,
                                   item, after_parameters(item, area_name),
                                   get_omnifocus_parameters(item, area_name)))
    /\ item' = after_parameters(item, area_name)
    /\ UNCHANGED <<db, pc, stream, stderr, uuids, k, resolved, dest>>

\* A caller evaluates get_all_todos_for_project_in_order(item) on the project it holds.
ExtractTodos ==
    /\ pc = "extract"
    /\ calls = <<>>
    /\ calls' = << [op |-> "get_all_todos_for_project_in_order", before |-> item,
                    result |-> get_all_todos_for_project_in_order(item)] >>
    /\ UNCHANGED <<db, pc, item, stream, stderr, uuids, k, resolved, dest>>

\* An interactive caller evaluates item = uuid_to_item(uuid, type).
UuidToItem(uuid, type) ==
    /\ pc = "interactive"
    /\ calls = <<>>
    /\ resolved' = [uuid |-> uuid, type |-> type, result |-> uuid_to_item(db, uuid, type)]
    /\ item' = IF IsError(uuid_to_item(db, uuid, type)) THEN item ELSE uuid_to_item(db, uuid, type)
    /\ UNCHANGED <<db, pc, stream, stderr, uuids, k, calls, dest>>

\* The arguments an interactive caller passes: the record it holds, at some depth, or
\* the record's uuid with every other parameter at its default.
HeldArgs(fits) ==
    {[arg |-> [dict |-> item], depth |-> d] : d \in IF fits THEN 0..MaxDepth ELSE {}}
    \cup {[arg |-> [str |-> item["uuid"]], depth |-> 0]}

\* write_todo(arg, stream, depth, area_name)
WriteTodo(a, area_name) ==
    /\ pc = "interactive"
    /\ item # NoItem
    /\ Len(calls) < MaxCalls
    /\ a \in HeldArgs(IsTodo(item))
    /\ "str" \in DOMAIN a.arg => area_name = NoneText
    /\ LET todo == resolve_item_if_needed(db, a.arg, "to-do")
           out == IF IsError(todo) THEN <<>> ELSE write_todo(todo, Tabs(a.depth), area_name)
           after == IF IsError(todo) THEN todo ELSE after_write_todo(todo, area_name)
       IN  /\ calls' = Append(calls, Call("write_todo", a.arg, a.depth, area_name, todo, after, out))
           /\ stream' = stream \o out
           /\ item' = IF "dict" \in DOMAIN a.arg THEN after ELSE item
    /\ resolved' = NoCall
    /\ UNCHANGED <<db, pc, stderr, uuids, k, dest>>

\* write_project(arg, stream, depth)
WriteProject(a) ==
    /\ pc = "interactive"
    /\ item # NoItem
    /\ Len(calls) < MaxCalls
    /\ a \in HeldArgs(IsProject(item))
    /\ LET project == resolve_item_if_needed(db, a.arg, "project")
           out == IF IsError(project) THEN <<>> ELSE write_project(project, Tabs(a.depth))
           after == IF IsError(project) THEN project ELSE after_write_project(project)
       IN  /\ calls' = Append(calls, Call("write_project", a.arg, a.depth, NoneText, project, after, out))
           /\ stream' = stream \o out
           /\ item' = IF "dict" \in DOMAIN a.arg THEN after ELSE item
    /\ resolved' = NoCall
    /\ UNCHANGED <<db, pc, stderr, uuids, k, dest>>

IsArea(r) == Get(r, "type", None) = "area"

\* write_all_items_in_area(arg, stream, depth)
WriteAllItemsInArea(a) ==
    /\ pc = "interactive"
    /\ item # NoItem
    /\ Len(calls) < MaxCalls
    /\ a \in HeldArgs(IsArea(item))
    /\ LET area == resolve_item_if_needed(db, a.arg, "area")
           out == IF IsError(area) THEN <<>> ELSE write_all_items_in_area(area, Tabs(a.depth))
           after == IF IsError(area) THEN area ELSE after_write_all_items_in_area(area)
       IN  /\ calls' = Append(calls, Call("write_all_items_in_area", a.arg, a.depth, NoneText, area, after, out))
           /\ stream' = stream \o out
           /\ item' = IF "dict" \in DOMAIN a.arg THEN after ELSE item
    /\ resolved' = NoCall
    /\ UNCHANGED <<db, pc, stderr, uuids, k, dest>>

\* sorted(things.areas(include_items=True), key=itemgetter("title")): an insertion sort
RECURSIVE InsertByTitle(_, _)
InsertByTitle(sorted, r) ==
    IF sorted = <<>> THEN <<r>>
    ELSE IF ~ StrLess(r["title"], sorted[Len(sorted)]["title"]) THEN Append(sorted, r)
    ELSE Append(InsertByTitle(SubSeq(sorted, 1, Len(sorted) - 1), r), sorted[Len(sorted)])

RECURSIVE SortedByTitle(_)
SortedByTitle(records) ==
    IF records = <<>> THEN <<>>
    ELSE InsertByTitle(SortedByTitle(SubSeq(records, 1, Len(records) - 1)), records[Len(records)])

\* (a variant that takes the areas in the accessor's order)
areas_unsorted(d) == things_areas(d)

areas_in_order(d) == SortedByTitle(things_areas(d))

\* export(write_to_clipboard, database, uuids): up to the choice of lines 455-457
Export(us) ==
    /\ pc = "export"
    /\ uuids' = us
    /\ k' = 0
    /\ pc' = IF us # <<>> THEN "uuids"
             ELSE IF areas_in_order(db) # <<>> THEN "areas" ELSE "projects"
    /\ UNCHANGED <<db, item, stream, stderr, calls, resolved, dest>>

NotFoundWarning(uuid) ==
    [format |-> "Warning: UUID '{uuid}' was not found in the database", uuid |-> uuid]

NotExportableWarning(uuid) ==
    [format |-> "Warning: the item with UUID '{uuid}' was not a 'to-do', 'project', or 'area'",
     uuid |-> uuid]

\* What one pass of the loop of lines 458-484 writes for a resolved item
export_dispatch(it) ==
    IF IsTodo(it) THEN [op |-> "write_todo", out |-> write_todo(it, <<>>, NoneText),
                        after |-> after_write_todo(it, NoneText)]
    ELSE IF IsProject(it) THEN [op |-> "write_project", out |-> write_project(it, <<>>),
                                after |-> after_write_project(it)]
    ELSE IF IsArea(it) THEN [op |-> "write_all_items_in_area", out |-> write_all_items_in_area(it, <<>>),
                             after |-> after_write_all_items_in_area(it)]
    ELSE [op |-> "warning", out |-> <<>>, after |-> it]

\* (a variant in which an unresolved uuid ends the loop)
ExportUuid_stops_at_unresolved ==
    /\ pc = "uuids"
    /\ k < Len(uuids)
    /\ LET uuid == uuids[k + 1]
           it == uuid_to_item(db, uuid, None)
           done == IF IsError(it) THEN [op |-> "warning", out |-> <<>>, after |-> it]
                   ELSE export_dispatch(it)
       IN  /\ stderr' = IF IsError(it) THEN Append(stderr, NotFoundWarning(uuid))
                        ELSE IF done.op = "warning" THEN Append(stderr, NotExportableWarning(uuid))
                        ELSE stderr
           /\ stream' = stream \o done.out
           /\ calls' = Append(calls, Call(done.op, [dict |-> it], 0, NoneText, it, done.after, done.out))
           /\ pc' = IF k + 1 = Len(uuids) \/ IsError(it) THEN "output" ELSE "uuids"
    /\ k' = k + 1
    /\ UNCHANGED <<db, item, uuids, resolved, dest>>

\* One pass of the loop `for uuid in uuids`
ExportUuid ==
    /\ pc = "uuids"
    /\ k < Len(uuids)
    /\ LET uuid == uuids[k + 1]
           it == uuid_to_item(db, uuid, None)
           done == IF IsError(it) THEN [op |-> "warning", out |-> <<>>, after |-> it]
                   ELSE export_dispatch(it)
       IN  /\ stderr' = IF IsError(it) THEN Append(stderr, NotFoundWarning(uuid))
                        ELSE IF done.op = "warning" THEN Append(stderr, NotExportableWarning(uuid))
                        ELSE stderr
           /\ stream' = stream \o done.out
           /\ calls' = Append(calls, Call(done.op, [dict |-> it], 0, NoneText, it, done.after, done.out))
    /\ k' = k + 1
    /\ pc' = IF k + 1 = Len(uuids) THEN "output" ELSE "uuids"
    /\ UNCHANGED <<db, item, uuids, resolved, dest>>

\* _write_everything_except_areas: one pass of the loop over the areas
WriteArea ==
    /\ pc = "areas"
    /\ k < Len(areas_in_order(db))
    /\ LET area == areas_in_order(db)[k + 1]
           out == write_all_items_in_area(area, <<>>)
       IN  /\ stream' = stream \o out
           /\ calls' = Append(calls, Call("write_all_items_in_area", [dict |-> area], 0, NoneText,
                                          area, after_write_all_items_in_area(area), out))
    /\ k' = k + 1
    /\ pc' = IF k + 1 = Len(areas_in_order(db)) THEN "projects" ELSE "areas"
    /\ UNCHANGED <<db, item, stderr, uuids, resolved, dest>>

\* _write_everything_except_areas: write_projects(get_all_projects_with_no_area(), stream)
WriteProjectsWithNoArea ==
    /\ pc = "projects"
    /\ stream' = stream \o write_projects(get_all_projects_with_no_area(db), <<>>)
    /\ pc' = "todos"
    /\ UNCHANGED <<db, item, stderr, uuids, k, calls, resolved, dest>>

\* _write_everything_except_areas: write_todos(get_all_todos_with_no_area(), stream)
WriteTodosWithNoArea ==
    /\ pc = "todos"
    /\ stream' = stream \o write_todos(get_all_todos_with_no_area(db), <<>>, NoneText)
    /\ pc' = "output"
    /\ UNCHANGED <<db, item, stderr, uuids, k, calls, resolved, dest>>

\* export, lines 486-489: the whole buffer goes to the clipboard or to stdout
Output(write_to_clipboard) ==
    /\ pc = "output"
    /\ dest' = [to |-> IF write_to_clipboard THEN "clipboard" ELSE "stdout", text |-> stream]
    /\ pc' = "done"
    /\ UNCHANGED <<db, item, stream, stderr, uuids, k, calls, resolved>>

Next ==
    \/ \E area_name \in AreaNames : GetParameters(area_name)
    \/ ExtractTodos
    \/ \E uuid \in UuidUniverse, type \in {None, "to-do", "project", "area"} : UuidToItem(uuid, type)
    \/ /\ pc = "interactive" /\ item # NoItem
       /\ \E a \in HeldArgs(IsTodo(item)), area_name \in {NoneText, Areas[2]["title"]} : WriteTodo(a, area_name)
    \/ /\ pc = "interactive" /\ item # NoItem
       /\ \E a \in HeldArgs(IsProject(item)) : WriteProject(a)
    \/ /\ pc = "interactive" /\ item # NoItem
       /\ \E a \in HeldArgs(IsArea(item)) : WriteAllItemsInArea(a)
    \/ \E us \in UuidLists : Export(us)
    \/ ExportUuid
    \/ WriteArea
    \/ WriteProjectsWithNoArea
    \/ WriteTodosWithNoArea
    \/ \E write_to_clipboard \in BOOLEAN : Output(write_to_clipboard)

Spec == Init /\ [][Next]_vars

-----------------------------------------------------------------------------
(* Reading the written text back. *)

StartsWith(text, prefix) ==
    Len(text) >= Len(prefix) /\ SubSeq(text, 1, Len(prefix)) = prefix

\* The places where pat occurs in text
Occurrences(text, pat) ==
    {i \in 1..(Len(text) - Len(pat) + 1) : SubSeq(text, i, i + Len(pat) - 1) = pat}

Contains(text, pat) == Occurrences(text, pat) # {}

RECURSIVE LeadingTabs(_)
LeadingTabs(line) ==
    IF line # <<>> /\ Head(line) = "\t" THEN 1 + LeadingTabs(Tail(line)) ELSE 0

\* The parts of text between the separators ", "
RECURSIVE SplitCommaFrom(_, _, _)
SplitCommaFrom(text, i, cur) ==
    IF i > Len(text) THEN <<cur>>
    ELSE IF i < Len(text) /\ text[i] = "," /\ text[i + 1] = " "
         THEN <<cur>> \o SplitCommaFrom(text, i + 2, <<>>)
    ELSE SplitCommaFrom(text, i + 1, Append(cur, text[i]))

SplitComma(text) == IF text = <<>> THEN <<>> ELSE SplitCommaFrom(text, 1, <<>>)

TagsOpen == <<"@", "t", "a", "g", "s", "(">>
DeferOpen == <<"@", "d", "e", "f", "e", "r", "(">>
DueOpen == <<"@", "d", "u", "e", "(">>

\* The tags an annotation lists: what stands between its last "@tags(" and its final ")"
TagsListed(annotation) ==
    LET at == CHOOSE i \in Occurrences(annotation, TagsOpen) :
                  \A j \in Occurrences(annotation, TagsOpen) : j <= i
    IN  SplitComma(SubSeq(annotation, at + Len(TagsOpen), Len(annotation) - 1))

\* area-<name>, each space of the name a hyphen
AreaTag(name) ==
    [i \in 1..(5 + Len(name)) |->
        IF i <= 5 THEN <<"a", "r", "e", "a", "-">>[i]
        ELSE IF name[i - 5] = " " THEN "-" ELSE name[i - 5]]

-----------------------------------------------------------------------------
(* C1  Selective export processes every identifier in the order given: after k
   identifiers the document is the renderings of the resolvable ones among them, in
   that order, and nothing else; sys.stderr holds exactly one "not found" warning
   for each unresolvable one, in that order; and the loop ends only when every
   identifier was processed, the document handed over being the whole buffer. *)

Resolves(uuid) == ~ IsError(uuid_to_item(db, uuid, None))

RenderingOf(uuid) ==
    LET it == uuid_to_item(db, uuid, None)
    IN  IF IsTodo(it) THEN write_todo(it, <<>>, NoneText)
        ELSE IF IsProject(it) THEN write_project(it, <<>>)
        ELSE IF IsArea(it) THEN write_all_items_in_area(it, <<>>)
        ELSE <<>>

RECURSIVE RenderingsOfFirst(_)
RenderingsOfFirst(n) ==
    IF n = 0 THEN <<>> ELSE RenderingsOfFirst(n - 1) \o RenderingOf(uuids[n])

RECURSIVE UnresolvedAmongFirst(_)
UnresolvedAmongFirst(n) ==
    IF n = 0 THEN <<>>
    ELSE UnresolvedAmongFirst(n - 1) \o (IF Resolves(uuids[n]) THEN <<>> ELSE <<uuids[n]>>)

NotFoundWarned ==
    LET w == SelectSeq(stderr, LAMBDA x : x.format = NotFoundWarning("").format)
    IN  [i \in 1..Len(w) |-> w[i].uuid]

C1_SelectiveExport ==
    (pc \in {"uuids", "output", "done"} /\ uuids # <<>>) =>
        /\ stream = RenderingsOfFirst(k)
        /\ NotFoundWarned = UnresolvedAmongFirst(k)
        /\ pc \in {"output", "done"} => k = Len(uuids)
        /\ pc = "done" => dest.text = stream

\* export was given [valid1, missing, valid2] and has finished
C1_Witness ==
    /\ pc = "done"
    /\ Len(uuids) = 3
    /\ Resolves(uuids[1]) /\ ~ Resolves(uuids[2]) /\ Resolves(uuids[3])
    /\ RenderingOf(uuids[1]) # <<>> /\ RenderingOf(uuids[3]) # <<>>
    /\ uuids[1] # uuids[3]
    /\ Len(stderr) = 1

-----------------------------------------------------------------------------
(* C2  get_all_todos_for_project_in_order flattens headings: the result holds each
   direct-child to-do and each to-do of each heading exactly once and no heading;
   no heading's to-do stands before a direct child; to-dos of different headings
   stand in ascending order of the headings' index, to-dos of one heading in
   ascending order of their own index; with no to-dos anywhere it is empty. *)

ItemsOf(r) == Get(r, "items", <<>>)

DirectTodos(project) == {x \in Range(ItemsOf(project)) : x["type"] = "to-do"}

HeadingsIn(project) == {x \in Range(ItemsOf(project)) : x["type"] = "heading"}

HeadingTodos(project) ==
    UNION { {x \in Range(ItemsOf(h)) : x["type"] = "to-do"} : h \in HeadingsIn(project) }

HeadingIndexOf(project, todo) ==
    (CHOOSE h \in HeadingsIn(project) : todo \in Range(ItemsOf(h)))["index"]

Flattened(project, result) ==
    /\ Range(result) = DirectTodos(project) \cup HeadingTodos(project)
    /\ Len(result) = Cardinality(DirectTodos(project)) + Cardinality(HeadingTodos(project))
    /\ \A i, j \in 1..Len(result) : i < j =>
          /\ result[j] \in DirectTodos(project) => result[i] \in DirectTodos(project)
          /\ (result[i] \in HeadingTodos(project) /\ result[j] \in HeadingTodos(project)) =>
                /\ HeadingIndexOf(project, result[i]) <= HeadingIndexOf(project, result[j])
                /\ HeadingIndexOf(project, result[i]) = HeadingIndexOf(project, result[j])
                      => result[i]["index"] <= result[j]["index"]

C2_HeadingsFlattened ==
    \A i \in 1..Len(calls) :
        calls[i].op = "get_all_todos_for_project_in_order" =>
            Flattened(calls[i].before, calls[i].result)

\* a project whose items list a heading of index 2 before a heading of index 1 and
\* a direct to-do after both, each heading holding a to-do
C2_Witness ==
    /\ pc = "extract"
    /\ calls # <<>>
    /\ "items" \in DOMAIN item
    /\ Len(item["items"]) = 3
    /\ item["items"][1]["uuid"] = "g1" /\ item["items"][2]["uuid"] = "g2"
    /\ item["items"][3]["uuid"] = "c1"
    /\ Len(calls[1].result) = 4

\* a project with headings but no to-do anywhere gives the empty list
C2_WitnessEmpty ==
    /\ pc = "extract" /\ calls # <<>>
    /\ HeadingsIn(item) # {} /\ calls[1].result = <<>>

-----------------------------------------------------------------------------
(* C3  The annotation of any record ends with exactly one @tags(...) token; the
   tags it lists are the record's own tags, its start status if it has one, and
   area-<name> if an area name is supplied, each once, in ascending str order,
   joined by comma-space (none: "@tags()"); @defer(...) stands before @due(...) and
   both before @tags(.  Tags b, a with start Anytime give " @tags(Anytime, a, b)". *)

ExpectedTags(it, area_name) ==
    Range(Get(it, "tags", <<>>))
    \cup (IF "start" \in DOMAIN it THEN {it["start"]} ELSE {})
    \cup (IF area_name # NoneText THEN {AreaTag(area_name)} ELSE {})

First(S) == CHOOSE i \in S : \A j \in S : i <= j

AnnotationWellFormed(it, area_name, out) ==
    /\ Cardinality(Occurrences(out, TagsOpen)) = 1
    /\ out[Len(out)] = ")"
    /\ Cardinality(Occurrences(out, <<")">>)) =
          1 + Cardinality(Occurrences(out, DeferOpen)) + Cardinality(Occurrences(out, DueOpen))
    /\ LET listed == TagsListed(out)
       IN  /\ Range(listed) = ExpectedTags(it, area_name)
           /\ \A i \in 1..(Len(listed) - 1) : StrLess(listed[i], listed[i + 1])
    /\ Contains(out, DeferOpen \o Get(it, "start_date", <<>>) \o <<")">>) <=> "start_date" \in DOMAIN it
    /\ Contains(out, DueOpen \o Get(it, "deadline", <<>>) \o <<")">>) <=> "deadline" \in DOMAIN it
    /\ "start_date" \in DOMAIN it /\ "deadline" \in DOMAIN it =>
          First(Occurrences(out, DeferOpen)) < First(Occurrences(out, DueOpen))
    /\ "start_date" \in DOMAIN it =>
          First(Occurrences(out, DeferOpen)) < First(Occurrences(out, TagsOpen))
    /\ "deadline" \in DOMAIN it =>
          First(Occurrences(out, DueOpen)) < First(Occurrences(out, TagsOpen))

C3_TagsToken ==
    \A i \in 1..Len(calls) :
        calls[i].op = "_get_omnifocus_parameters" =>
            /\ AnnotationWellFormed(calls[i].before, calls[i].area_name, calls[i].out)
            /\ ( /\ DOMAIN calls[i].before = {"title", "tags", "start"}
                 /\ calls[i].before["tags"] = <<<<"b">>, <<"a">>>>
                 /\ calls[i].before["start"] = <<"A", "n", "y", "t", "i", "m", "e">>
                 /\ calls[i].area_name = NoneText )
               => calls[i].out = <<" ", "@", "t", "a", "g", "s", "(", "A", "n", "y", "t", "i", "m", "e", ",", " ", "a", ",", " ", "b", ")">>

\* a record with two distinct tags out of order, a start status equal to neither,
\* both dates, and an area name with a space in it
C3_Witness ==
    /\ pc = "params"
    /\ calls # <<>>
    /\ calls[1].area_name = <<"H", "o", "m", "e", " ", "P", "r", "o", "j", "e", "c", "t", "s">>
    /\ DOMAIN calls[1].before = {"title", "tags", "start", "start_date", "deadline"}
    /\ calls[1].before["tags"] = <<<<"b">>, <<"a">>>>
    /\ calls[1].before["start"] = <<"A", "n", "y", "t", "i", "m", "e">>
    /\ Len(TagsListed(calls[1].out)) = 4

\* a record with no tags, no start status and no area name: @tags() alone
C3_WitnessEmpty ==
    /\ pc = "params" /\ calls # <<>>
    /\ calls[1].out = <<" ", "@", "t", "a", "g", "s", "(", ")">>

-----------------------------------------------------------------------------
(* Reading lines back. *)

\* The positions of a set of numbers in ascending order
RECURSIVE Ascending(_)
Ascending(S) ==
    IF S = {} THEN <<>>
    ELSE LET least == CHOOSE x \in S : \A y \in S : x <= y
         IN  <<least>> \o Ascending(S \ {least})

\* The lines of a document: the text before each "\n", and what follows the last
\* "\n" if anything does
Lines(text) ==
    LET ends == Ascending({i \in 1..Len(text) : text[i] = "\n"}
                          \cup (IF text # <<>> /\ text[Len(text)] # "\n" THEN {Len(text) + 1} ELSE {}))
    IN  [j \in 1..Len(ends) |-> SubSeq(text, (IF j = 1 THEN 1 ELSE ends[j - 1] + 1), ends[j] - 1)]

RECURSIVE StripTabs(_)
StripTabs(line) == IF line # <<>> /\ Head(line) = "\t" THEN StripTabs(Tail(line)) ELSE line

Dash == <<"-", " ">>

\* A to-do's or a project's own line: it carries the annotation
IsItemLine(line) == Contains(line, TagsOpen)
IsTodoLine(line) == StartsWith(StripTabs(line), Dash) /\ IsItemLine(line)
IsProjectLine(line) == ~ StartsWith(StripTabs(line), Dash) /\ IsItemLine(line)

\* The title on a to-do's or a project's line: what stands before the annotation,
\* without the "- " of a to-do and the ":" of a project
TitleOnLine(line) ==
    LET body == StripTabs(line)
        upto == First(Occurrences(body, <<" ", "@">>)) - 1
    IN  IF StartsWith(body, Dash) THEN SubSeq(body, 3, upto) ELSE SubSeq(body, 1, upto - 1)

LinesAtDepth(text, depth) == SelectSeq(Lines(text), LAMBDA l : LeadingTabs(l) = depth)

HasAreaTag(line) ==
    \E tag \in Range(TagsListed(line)) : StartsWith(tag, <<"a", "r", "e", "a", "-">>)

-----------------------------------------------------------------------------
(* C4  Area tagging: whenever write_all_items_in_area rendered an area, each of the
   area's top-level to-dos has a line at the call's depth whose @tags(...) lists
   area-<title, spaces as hyphens>; and no to-do line underneath a project line
   lists any area-... tag, in what write_project or write_all_items_in_area wrote
   and in the whole document of an export. *)

TopLevelTodosOf(area) ==
    {x \in Range(ItemsOf(area)) : x["type"] = "to-do" /\ Get(x, "area", None) = area["uuid"]}

TopLevelProjectsOf(area) ==
    {x \in Range(ItemsOf(area)) : x["type"] = "project" /\ Get(x, "area", None) = area["uuid"]}

AreaTodosTagged(area, depth, out) ==
    LET L == LinesAtDepth(out, depth)
    IN  \A t \in TopLevelTodosOf(area) :
            \E i \in 1..Len(L) :
                /\ IsTodoLine(L[i])
                /\ TitleOnLine(L[i]) = t["title"]
                /\ AreaTag(area["title"]) \in Range(TagsListed(L[i]))

\* in text written at `depth` by write_project or write_all_items_in_area, the to-do
\* lines one level down are the to-dos of projects
NoAreaTagUnderProjects(depth, out) ==
    LET L == LinesAtDepth(out, depth + 1)
    IN  \A i \in 1..Len(L) : IsTodoLine(L[i]) => ~ HasAreaTag(L[i])

C4_AreaTagging ==
    /\ \A i \in 1..Len(calls) :
          /\ (calls[i].op = "write_all_items_in_area" /\ ~ calls[i].raised /\ IsArea(calls[i].before)) =>
                AreaTodosTagged(calls[i].before, calls[i].depth, calls[i].out)
          /\ (calls[i].op \in {"write_all_items_in_area", "write_project"} /\ ~ calls[i].raised) =>
                NoAreaTagUnderProjects(calls[i].depth, calls[i].out)
    /\ pc \in {"output", "done"} => NoAreaTagUnderProjects(0, stream)

\* the whole database was exported: the to-do Mow of area "Home Projects" carries
\* area-Home-Projects, and the to-dos of project Launch of area Work were written
C4_Witness ==
    /\ pc = "done" /\ uuids = <<>>
    /\ Contains(stream, <<"-", " ", "M", "o", "w", " ", "@", "t", "a", "g", "s", "(", "A", "n", "y", "t", "i", "m", "e", ",", " ", "a", ",", " ", "a", "r", "e", "a", "-", "H", "o", "m", "e", "-", "P", "r", "o", "j", "e", "c", "t", "s", ")", "\n">>)
    /\ Contains(stream, <<"L", "a", "u", "n", "c", "h", ":", " ", "@", "d", "u", "e", "(", "2", "0", "2", "4", "-", "0", "1", "-", "0", "2", ")", " ", "@", "t", "a", "g", "s", "(", "A", "n", "y", "t", "i", "m", "e", ",", " ", "a", ",", " ", "a", "r", "e", "a", "-", "W", "o", "r", "k", ",", " ", "b", ")", "\n">>)
    /\ Contains(stream, <<"\t", "-", " ", "T", "e", "s", "t", " ", "@", "t", "a", "g", "s", "(", "A", "n", "y", "t", "i", "m", "e", ")", "\n">>)

-----------------------------------------------------------------------------
(* C5  Whole-database export writes the document in a fixed order: the items of
   areas first, the areas in ascending str order of title, within an area its
   projects in ascending index before its top-level to-dos in ascending index; then
   the projects with no area in ascending index; then the to-dos with no area,
   project or heading in ascending index; each of these exactly once when the
   document is complete. *)

TaskTitled(title) == CHOOSE t \in Range(db.tasks) : t["title"] = title

\* The records whose lines stand at depth zero, in document order
TopLevelRecords(text) ==
    LET L == LinesAtDepth(text, 0)
    IN  [i \in 1..Len(L) |-> TaskTitled(TitleOnLine(L[i]))]

AreaTitleOf(t) == (CHOOSE a \in Range(db.areas) : a["uuid"] = t["area"])["title"]

Section(t) ==
    IF "area" \in DOMAIN t THEN 1
    ELSE IF t["type"] = "project" THEN 2
    ELSE 3

\* x may stand before y in the document
MayPrecede(x, y) ==
    \/ Section(x) < Section(y)
    \/ /\ Section(x) = 1 /\ Section(y) = 1
       /\ \/ StrLess(AreaTitleOf(x), AreaTitleOf(y))
          \/ /\ AreaTitleOf(x) = AreaTitleOf(y)
             /\ \/ x["type"] = "project" /\ y["type"] = "to-do"
                \/ x["type"] = y["type"] /\ x["index"] <= y["index"]
    \/ /\ Section(x) = Section(y) /\ Section(x) > 1
       /\ x["index"] <= y["index"]

TopLevelOfDatabase ==
    {t \in Range(db.tasks) :
        /\ t["type"] \in {"project", "to-do"}
        /\ \/ "area" \in DOMAIN t
           \/ t["type"] = "project"
           \/ "project" \notin DOMAIN t /\ "heading" \notin DOMAIN t}

C5_WholeExportOrder ==
    (pc \in {"areas", "projects", "todos", "output", "done"} /\ uuids = <<>>) =>
        LET top == TopLevelRecords(stream)
        IN  /\ \A i, j \in 1..Len(top) : i < j => (MayPrecede(top[i], top[j]) /\ top[i] # top[j])
            /\ pc \in {"output", "done"} => Range(top) = TopLevelOfDatabase

\* the whole database was exported by an accessor that returns the areas and the
\* rows out of order
C5_Witness ==
    /\ pc = "done" /\ uuids = <<>>
    /\ db.areas = Areas
    /\ Len(TopLevelRecords(stream)) = 9

-----------------------------------------------------------------------------
(* C6  uuid_to_item enforces the expected kind: asked for a to-do, a project or an
   area, it raises UUIDDoesNotResolveError whenever the uuid is not in the database
   or belongs to a record of another kind, and never returns a record of another
   kind. *)

KindInDatabase(uuid) ==
    IF \E t \in Range(db.tasks) : t["uuid"] = uuid
    THEN (CHOOSE t \in Range(db.tasks) : t["uuid"] = uuid)["type"]
    ELSE IF \E a \in Range(db.areas) : a["uuid"] = uuid THEN "area"
    ELSE None

C6_KindEnforced ==
    resolved.type \in {"to-do", "project", "area"} =>
        /\ ~ IsError(resolved.result) => resolved.result["type"] = resolved.type
        /\ KindInDatabase(resolved.uuid) # resolved.type => IsError(resolved.result)

-----------------------------------------------------------------------------
(* C7  Records are never mutated: after _get_omnifocus_parameters, write_todo,
   write_project or write_all_items_in_area returns, the record it was handed
   equals the record before the call, its tags included. *)

C7_RecordsNeverMutated ==
    \A i \in 1..Len(calls) :
        "after" \in DOMAIN calls[i] => calls[i].after = calls[i].before

-----------------------------------------------------------------------------
(* C8  Area invisibility: what write_all_items_in_area writes for an area holds no
   line equal to the area's title followed by a colon; the lines at the call's
   depth are one for each project and one for each top-level to-do of the area. *)

AreaInvisible(area, depth, out) ==
    LET all == Lines(out)
        top == SelectSeq(all, LAMBDA l : LeadingTabs(l) = depth)
    IN  /\ \A j \in 1..Len(all) : StripTabs(all[j]) # area["title"] \o <<":">>
        /\ \A j \in 1..Len(all) : LeadingTabs(all[j]) >= depth
        /\ \A j \in 1..Len(top) : IsItemLine(top[j])
        /\ Len(top) = Cardinality(TopLevelProjectsOf(area)) + Cardinality(TopLevelTodosOf(area))
        /\ \A j \in 1..Len(top) :
              \E x \in TopLevelProjectsOf(area) \cup TopLevelTodosOf(area) :
                  /\ TitleOnLine(top[j]) = x["title"]
                  /\ IsProjectLine(top[j]) <=> x["type"] = "project"

C8_AreaInvisible ==
    \A i \in 1..Len(calls) :
        (calls[i].op = "write_all_items_in_area" /\ ~ calls[i].raised /\ IsArea(calls[i].before)) =>
            AreaInvisible(calls[i].before, calls[i].depth, calls[i].out)

\* the area Work, with two projects and two top-level to-dos, was rendered in a
\* whole-database export
C8_Witness ==
    /\ pc = "done" /\ uuids = <<>>
    /\ \E i \in 1..Len(calls) :
          /\ calls[i].op = "write_all_items_in_area"
          /\ calls[i].before["title"] = <<"W", "o", "r", "k">>
          /\ Len(LinesAtDepth(calls[i].out, 0)) = 4

\* the area Home Projects was rendered by its uuid in a selective export
C8_WitnessSelective ==
    /\ pc = "done" /\ uuids # <<>>
    /\ \E i \in 1..Len(calls) :
          calls[i].op = "write_all_items_in_area" /\ calls[i].out # <<>>

-----------------------------------------------------------------------------
(* C9  Idempotence: two calls in succession of the same serializer on the same
   record object with the same depth and the same area name write the same text. *)

Serializers == {"_get_omnifocus_parameters", "write_todo", "write_project", "write_all_items_in_area"}

SameCallTwice(i) ==
    /\ pc \in {"params", "interactive"}
    /\ i + 1 <= Len(calls)
    /\ calls[i].op \in Serializers
    /\ calls[i + 1].op = calls[i].op
    /\ ~ calls[i].str /\ ~ calls[i + 1].str
    /\ calls[i + 1].depth = calls[i].depth
    /\ calls[i + 1].area_name = calls[i].area_name

C9_Idempotent ==
    \A i \in 1..Len(calls) : SameCallTwice(i) => calls[i + 1].out = calls[i].out

\* a to-do with tags and a start status was written twice with an area name, and
\* the first call changed the object the second one was handed
C9_Witness ==
    /\ SameCallTwice(1)
    /\ calls[1].op = "write_todo"
    /\ calls[1].area_name # NoneText
    /\ "tags" \in DOMAIN calls[1].before /\ "start" \in DOMAIN calls[1].before
    /\ calls[2].before # calls[1].before

\* a project with tags, a start status and an area title was written twice
C9_WitnessProject ==
    /\ SameCallTwice(1)
    /\ calls[1].op = "write_project"
    /\ calls[2].before # calls[1].before

-----------------------------------------------------------------------------
(* C10  Nesting depth: a to-do written at depth d has its line at exactly d tabs,
   then its note lines and then its checklist entries, in source order, at exactly
   d+1 tabs; a project written at depth d has its line at exactly d tabs, its note
   lines at d+1, its to-dos' lines at d+1 and their notes and checklists at d+2;
   export writes at depth 0, so no line of its document has more than 2 tabs and
   none of its depth-0 lines is a note or a checklist entry. *)

NoteLinesOf(r) == IF "notes" \in DOMAIN r THEN Lines(r["notes"]) ELSE <<>>

TodoNested(todo, depth, out) ==
    LET L == Lines(out)
        notes == NoteLinesOf(todo)
        checklist == Get(todo, "checklist", <<>>)
    IN  /\ Len(L) = 1 + Len(notes) + Len(checklist)
        /\ LeadingTabs(L[1]) = depth
        /\ StartsWith(StripTabs(L[1]), Dash \o todo["title"] \o <<" ", "@">>)
        /\ \A j \in 1..Len(notes) : L[1 + j] = Tabs(depth + 1) \o notes[j]
        /\ \A j \in 1..Len(checklist) :
              L[1 + Len(notes) + j] = Tabs(depth + 1) \o Dash \o checklist[j]["title"]

ProjectNested(project, depth, out) ==
    LET L == Lines(out)
        notes == NoteLinesOf(project)
    IN  /\ Len(L) >= 1 + Len(notes)
        /\ LeadingTabs(L[1]) = depth
        /\ StartsWith(StripTabs(L[1]), project["title"] \o <<":", " ", "@">>)
        /\ \A j \in 1..Len(notes) : L[1 + j] = Tabs(depth + 1) \o notes[j]
        /\ \A j \in (2 + Len(notes))..Len(L) :
              /\ LeadingTabs(L[j]) \in {depth + 1, depth + 2}
              /\ IsTodoLine(L[j]) <=> LeadingTabs(L[j]) = depth + 1
        /\ Len(SelectSeq(L, IsTodoLine)) =
              Cardinality(DirectTodos(project)) + Cardinality(HeadingTodos(project))

C10_NestingDepth ==
    /\ \A i \in 1..Len(calls) :
          /\ (calls[i].op = "write_todo" /\ ~ calls[i].raised) =>
                TodoNested(calls[i].before, calls[i].depth, calls[i].out)
          /\ (calls[i].op = "write_project" /\ ~ calls[i].raised) =>
                ProjectNested(calls[i].before, calls[i].depth, calls[i].out)
    /\ pc \in {"uuids", "areas", "projects", "todos", "output", "done"} =>
          LET L == Lines(stream)
          IN  \A j \in 1..Len(L) :
                  /\ LeadingTabs(L[j]) <= 2
                  /\ LeadingTabs(L[j]) = 0 => IsItemLine(L[j])

\* a to-do with a note of three lines, one of them empty, and two checklist
\* entries was written at depth 1
C10_Witness ==
    /\ pc = "interactive"
    /\ \E i \in 1..Len(calls) :
          /\ calls[i].op = "write_todo" /\ ~ calls[i].raised /\ calls[i].depth = 1
          /\ Len(NoteLinesOf(calls[i].before)) = 3
          /\ Len(Get(calls[i].before, "checklist", <<>>)) = 2

\* a project with a note, direct to-dos and to-dos under headings was written at
\* depth 1
C10_WitnessProject ==
    /\ pc = "interactive"
    /\ \E i \in 1..Len(calls) :
          /\ calls[i].op = "write_project" /\ ~ calls[i].raised /\ calls[i].depth = 1
          /\ Len(SelectSeq(Lines(calls[i].out), IsTodoLine)) = 5

\* a whole-database export wrote lines two levels deep
C10_WitnessExport ==
    /\ pc = "done" /\ uuids = <<>>
    /\ \E line \in Range(Lines(stream)) : LeadingTabs(line) = 2

-----------------------------------------------------------------------------
(* C11  The list get_all_todos_for_project_in_order returns is sorted by index:
   whatever the order in which the project's items list holds them, the project's
   direct-child to-dos stand in the result in ascending order of their index. *)

DirectTodosOfResult(project, result) ==
    SelectSeq(result, LAMBDA x : x \in DirectTodos(project))

AscendingByIndex(todos) ==
    \A i, j \in 1..Len(todos) : i < j => todos[i]["index"] <= todos[j]["index"]

C11_DirectTodosSorted ==
    \A i \in 1..Len(calls) :
        calls[i].op = "get_all_todos_for_project_in_order" =>
            AscendingByIndex(DirectTodosOfResult(calls[i].before, calls[i].result))

-----------------------------------------------------------------------------
(* C12  Completeness of the whole-database export: once the whole database has
   been written, every to-do of the database has exactly one line in the
   document; a to-do of an area or of no owner has it at depth zero, a to-do owned
   by a project (directly or through a heading) has it one level deep beneath
   that project's line, whether or not the project has an area. *)

TodosOfDatabase == {t \in Range(db.tasks) : t["type"] = "to-do"}

OwningProjectOf(t) ==
    IF "project" \in DOMAIN t THEN t["project"]
    ELSE IF "heading" \in DOMAIN t
         THEN (CHOOSE h \in Range(db.tasks) : h["uuid"] = t["heading"])["project"]
         ELSE None

TitleOfProject(uuid) == (CHOOSE p \in Range(db.tasks) : p["uuid"] = uuid)["title"]

LinesOfTodo(t, L) == {j \in 1..Len(L) : IsTodoLine(L[j]) /\ TitleOnLine(L[j]) = t["title"]}

BeneathProject(uuid, j, L) ==
    /\ LeadingTabs(L[j]) = 1
    /\ \E i \in 1..(j - 1) :
          /\ IsProjectLine(L[i]) /\ TitleOnLine(L[i]) = TitleOfProject(uuid)
          /\ \A m \in (i + 1)..(j - 1) : ~ IsProjectLine(L[m])

RenderedOnceInPlace(t, L) ==
    /\ Cardinality(LinesOfTodo(t, L)) = 1
    /\ \A j \in LinesOfTodo(t, L) :
          IF OwningProjectOf(t) = None THEN LeadingTabs(L[j]) = 0
          ELSE BeneathProject(OwningProjectOf(t), j, L)

C12_EveryTodoRenderedOnce ==
    (pc \in {"output", "done"} /\ uuids = <<>>) =>
        LET L == Lines(stream)
        IN  \A t \in TodosOfDatabase : RenderedOnceInPlace(t, L)

====
